---- MODULE Spec2Model ----
(***************************************************************************)
(* Job tracking / status reconciliation of the video generation backend:   *)
(* the Job Store (table video_generations), the Prediction Provider        *)
(* (Replicate) and the HTTP handlers POST /generate, GET /status/:id,      *)
(* POST /cancel/:id and DELETE /:id of routes/videoGeneration.js.          *)
(*                                                                         *)
(* Every await of a handler is one action: the store or the provider       *)
(* serves the call at that instant, and the synchronous code that follows  *)
(* the await (up to the next await or the response) belongs to the action. *)
(* Handlers of different requests interleave at these points.  The requests *)
(* being served form a bag: which connection serves a request plays no     *)
(* part.  A store call returns its error to the caller and never throws.   *)
(***************************************************************************)
EXTENDS Integers, Sequences, FiniteSets, Bags, TLC

\* ---------------------------------------------------------------- bounds
MaxJobs == 1
NumHandlers == 2
MaxRows == 4
MaxPolls == 4
MaxTransactions == 4
NumDeducts == 2
MaxExecPolls == 3

\* ------------------------------------------------------------- constants
Null == "null"
VideoUrl == "https://x/video.mp4"
ProviderErrorText == "provider error"
CreateErrorText == "create failed"
GenericFailure == "Generation failed"

PENDING == "pending"
PROCESSING == "processing"
COMPLETED == "completed"
FAILED == "failed"
CANCELLED == "cancelled"
VIDEO_STATUS == {PENDING, PROCESSING, COMPLETED, FAILED, CANCELLED}
Terminal == {COMPLETED, FAILED, CANCELLED}

JobIds == 1..MaxJobs
PredId(id) == "pred-" \o ToString(id)

VARIABLES
  rows,      \* table video_generations: job id -> row, for the rows that exist
  nextId,    \* next primary key the store hands out
  preds,     \* predictions held by the provider: prediction id -> prediction
  params,    \* columns duration, aspect_ratio and resolution of the rows,
             \* which only the insert writes: job id -> the three values
  inputs,    \* the input each prediction was created with: prediction id -> input
  hs,        \* the requests being served: a bag of handler records, each with
             \* its position, its locals and, once it has returned, its response
  listing,   \* a GET /list request: its query and, once served, its response
  poller,    \* the browser page of one generation: its polling interval, the
             \* generation it shows and the job as the backend stores it
  ledger,    \* table credit_transactions: a bag of rows
  deducts,   \* the POST /deduct-credits requests being served
  exec       \* one execution of the frontend ModelExecutionService: its row of
             \* model_executions, its prediction and its writes under way

vars == <<rows, nextId, preds, params, inputs, hs, listing, poller, ledger,
         deducts, exec>>

\* the state of the job handlers
router == <<rows, nextId, preds, params, inputs, hs>>

\* the state outside the generate, status, cancel and delete handlers
apart == <<listing, poller, ledger, deducts, exec>>

\* ------------------------------------------------------------------ data
NoPred == [status |-> Null, output |-> Null, error |-> Null]
NoRow == [status |-> Null, external_id |-> Null, video_url |-> Null,
          thumbnail_url |-> Null, error_message |-> Null, output_data |-> NoPred]
NewRow == [NoRow EXCEPT !.status = PENDING]

NoPatch == [set |-> {}, vals |-> NoRow]
NoResp == [code |-> 0, status |-> Null, video_url |-> Null,
           thumbnail_url |-> Null, error_message |-> Null, details |-> <<>>]

\* A JSON value that is a string, or is taken as one, is kept by its shape:
\* blanks in front, characters from the first to the last non-blank one,
\* blanks behind; str says whether the value is a JSON string at all
NoText == [str |-> TRUE, lead |-> 0, core |-> 0, trail |-> 0]

\* req.body: the fields it has (given) and their values
NoBody == [given |-> {}, prompt |-> NoText, image |-> NoText, duration |-> 0,
           aspect_ratio |-> "", resolution |-> ""]

Idle == [kind |-> "idle", pc |-> "idle", id |-> 0, body |-> NoBody,
         gen |-> NoRow, obs |-> NoPred,
         url |-> Null, err |-> Null, resp |-> NoResp,
         calls |-> 0, writes |-> 0, cerr |-> FALSE, werr |-> FALSE,
         seen |-> NoRow, before |-> NoRow, after |-> NoRow, issued |-> NoPatch]

\* a value of req.query: absent, or the decimal string of n
NoParam == [given |-> FALSE, n |-> 0]
NoListing == [pc |-> "idle", page |-> NoParam, limit |-> NoParam, code |-> 0,
              generations |-> <<>>,
              pagination |-> [page |-> 0, limit |-> 0, total |-> 0, pages |-> 0]]

\* the page before a generation is started
NoPoller == [interval |-> FALSE, shown |-> Null, job |-> Null, reply |-> Null,
             seen |-> Null, polls |-> 0]

\* the service before an execution is started
NoExec == [pc |-> "idle", prediction |-> Null, status |-> Null, writes |-> {},
           outcome |-> Null, final |-> FALSE, polls |-> 0]

\* JavaScript truthiness of a string-or-null value (x || y, if (x))
Truthy(x) == x # Null /\ x # ""

\* the row a store call on id sees (NoRow when no row has that id)
RowOf(id) == IF id \in DOMAIN rows THEN rows[id] ELSE NoRow

\* .update(patch).eq('id', id): changes the matching row, if there is one
ApplyPatch(row, patch) ==
  [f \in DOMAIN row |-> IF f \in patch.set THEN patch.vals[f] ELSE row[f]]
\* (variant: an upsert, which writes the row when there is none)
UpdateRow_m(id, patch) ==
  [j \in DOMAIN rows \cup {id} |->
     IF j = id THEN ApplyPatch(RowOf(j), patch) ELSE rows[j]]
UpdateRow(id, patch) ==
  [j \in DOMAIN rows |-> IF j = id THEN ApplyPatch(rows[j], patch) ELSE rows[j]]

\* a store update as the handler sees it: applied (ok) or rejected with an
\* error object; supabase-js resolves with {error} and does not throw
StoreAfterUpdate(id, patch, ok) == IF ok THEN UpdateRow(id, patch) ELSE rows

\* nothing is going on outside the job handlers
Elsewhere ==
  /\ listing = NoListing
  /\ poller = NoPoller
  /\ ledger = EmptyBag
  /\ deducts = EmptyBag
  /\ exec = NoExec

\* no job, no prediction and no request
NoJobs ==
  /\ rows = <<>>
  /\ nextId = 1
  /\ preds = <<>>
  /\ params = <<>>
  /\ inputs = <<>>
  /\ hs = EmptyBag

Init == NoJobs /\ Elsewhere

\* the handlers being served
Handlers == BagToSet(hs)

\* a response is delivered before anything else happens: the state in which a
\* handler has returned is the point where its response is observed
Quiet == \A h \in Handlers : h.pc # "done"

\* the server takes a new request (at most NumHandlers are served at a time)
Accept(r) ==
  /\ Quiet
  /\ BagCardinality(hs) < NumHandlers
  /\ hs' = hs (+) SetToBag({r})
  /\ UNCHANGED apart

\* handler h takes a step that leaves it as r
Step(h, r) ==
  /\ Quiet
  /\ hs' = (hs (-) SetToBag({h})) (+) SetToBag({r})
  /\ UNCHANGED apart

\* ------------------------------------------------------------ provider
\* the provider's states before the end (starting, processing) are one state
\* here: the handlers treat them alike
InFlight == {"processing"}
NewPred == [status |-> "processing", output |-> Null, error |-> Null]

\* the prediction advances on the provider's side, whoever is watching; the
\* server is not told
\* (variant: the provider's end is pushed into the row of the job)
ProviderAdvance_m ==
  /\ Quiet
  /\ \E p \in DOMAIN preds :
       /\ preds[p].status \in InFlight
       /\ preds' = [preds EXCEPT ![p].status = "failed"]
       /\ rows' = [j \in DOMAIN rows |->
                     IF rows[j].external_id = p
                     THEN [rows[j] EXCEPT !.status = FAILED] ELSE rows[j]]
  /\ UNCHANGED <<nextId, params, inputs, hs, apart>>
ProviderAdvance ==
  /\ Quiet
  /\ \E p \in DOMAIN preds :
       /\ preds[p].status \in InFlight
       /\ \/ \E out \in {VideoUrl, Null} :
               preds' = [preds EXCEPT ![p].status = "succeeded", ![p].output = out]
          \/ \E e \in {ProviderErrorText, Null} :
               preds' = [preds EXCEPT ![p].status = "failed", ![p].error = e]
  /\ UNCHANGED <<rows, nextId, params, inputs, hs, apart>>

\* predictions.cancel: an in-flight prediction becomes canceled, a finished
\* one is left as it is
CancelPred(p) ==
  IF p \in DOMAIN preds /\ preds[p].status \in InFlight
  THEN [preds EXCEPT ![p].status = "canceled"]
  ELSE preds

\* --------------------------------------------------------- POST /generate
\* service lines 105-111: the id and the status go into the row together
\* (variant: only the status is stored)
ProcessingPatch_m(pid) ==
  [set |-> {"status"}, vals |-> [NoRow EXCEPT !.status = PROCESSING]]
ProcessingPatch(pid) ==
  [set |-> {"external_id", "status"},
   vals |-> [NoRow EXCEPT !.external_id = pid, !.status = PROCESSING]]
\* service lines 123-129, route lines 139-145 and 200-206: the update to failed
\* (variant: the message is not stored)
FailedPatch_m(msg) ==
  [set |-> {"status"}, vals |-> [NoRow EXCEPT !.status = FAILED]]
FailedPatch(msg) ==
  [set |-> {"status", "error_message"},
   vals |-> [NoRow EXCEPT !.status = FAILED, !.error_message = msg]]

\* ---- the request body and its validation (lines 13-35 and 55-61)
MinPromptLength == 1
MaxPromptLength == 1000
DefaultDuration == 5
DefaultAspectRatio == "16:9"
DefaultResolution == "720p"
DefaultPrompt == [NoText EXCEPT !.core = 16]
Fps == 24
SUPPORTED_DURATIONS == {5, 10}
SUPPORTED_ASPECT_RATIOS == {"16:9", "9:16", "1:1", "4:3", "3:4", "21:9", "9:21"}
ValidatedResolutions == {"480p", "720p", "1080p"}

Has(body, f) == f \in body.given
Length(s) == s.lead + s.core + s.trail
Trim(s) == [s EXCEPT !.lead = 0, !.trail = 0]

\* the validators are handed the value as a string: '' for a field that is
\* not there, String(value) for a value that is not a string
AsString(body, f) == IF Has(body, f) THEN [body[f] EXCEPT !.str = TRUE] ELSE NoText
IsString(body, f) == Has(body, f) /\ body[f].str

ValidationError(path, msg) == [path |-> path, msg |-> msg]

\* body('prompt').isString().trim().isLength({min: 1, max: 1000}): both
\* validators run, the second on the trimmed value
PromptErrors(body) ==
  (IF IsString(body, "prompt") THEN <<>>
   ELSE <<ValidationError("prompt", "Invalid value")>>)
  \o (IF Length(Trim(AsString(body, "prompt"))) \in MinPromptLength..MaxPromptLength
      THEN <<>>
      ELSE <<ValidationError("prompt", "Prompt must be between 1 and 1000 characters")>>)

\* body(f).optional().isIn(allowed): a field that is not there is not checked
\* (isIn compares decimal forms, so a number and its string are alike)
OptionalIn(body, f, allowed, msg) ==
  IF ~Has(body, f) \/ body[f] \in allowed THEN <<>>
  ELSE <<ValidationError(f, msg)>>

\* body('image').optional().isString()
ImageErrors(body) ==
  IF ~Has(body, "image") \/ IsString(body, "image") THEN <<>>
  ELSE <<ValidationError("image", "Image must be a valid URL or base64 string")>>

\* validationResult(req).array(): the errors of all the chains, in their order
\* (variant: the first error ends the validation)
ValidationErrors_m(body) ==
  LET all == PromptErrors(body)
             \o OptionalIn(body, "duration", SUPPORTED_DURATIONS, "Duration must be one of: 5, 10")
             \o OptionalIn(body, "aspect_ratio", SUPPORTED_ASPECT_RATIOS, "Aspect ratio must be one of the supported")
             \o OptionalIn(body, "resolution", ValidatedResolutions, "Resolution must be 480p, 720p, or 1080p")
             \o ImageErrors(body)
  IN IF all = <<>> THEN <<>> ELSE <<Head(all)>>
ValidationErrors(body) ==
  PromptErrors(body)
  \o OptionalIn(body, "duration", SUPPORTED_DURATIONS, "Duration must be one of: 5, 10")
  \o OptionalIn(body, "aspect_ratio", SUPPORTED_ASPECT_RATIOS, "Aspect ratio must be one of the supported")
  \o OptionalIn(body, "resolution", ValidatedResolutions, "Resolution must be 480p, 720p, or 1080p")
  \o ImageErrors(body)

BadRequest(body) == [NoResp EXCEPT !.code = 400, !.details = ValidationErrors(body)]

\* x || d on the fields of the body: a field that is not there, 0 and '' are falsy
DurationOr(body, d) ==
  IF Has(body, "duration") /\ body.duration # 0 THEN body.duration ELSE d
StringOr(body, f, d) == IF Has(body, f) /\ body[f] # "" THEN body[f] ELSE d
TextOr(body, f, d) == IF Has(body, f) /\ Length(body[f]) > 0 THEN body[f] ELSE d

\* lines 98-100: the three columns of the inserted row
RowParams(body) ==
  [duration |-> DurationOr(body, DefaultDuration),
   aspect_ratio |-> StringOr(body, "aspect_ratio", DefaultAspectRatio),
   resolution |-> StringOr(body, "resolution", DefaultResolution)]

\* lines 117-123: inputData
InputData(body) ==
  [body EXCEPT !.given = @ \cup {"duration", "aspect_ratio", "resolution"},
               !.duration = DurationOr(body, DefaultDuration),
               !.aspect_ratio = StringOr(body, "aspect_ratio", DefaultAspectRatio),
               !.resolution = StringOr(body, "resolution", DefaultResolution)]

\* service lines 73-88: replicateInput
\* (variant: the resolution is not taken from inputData)
ReplicateInput_m(inputData) ==
  [prompt |-> TextOr(inputData, "prompt", DefaultPrompt),
   duration |-> DurationOr(inputData, DefaultDuration),
   aspect_ratio |-> StringOr(inputData, "aspect_ratio", DefaultAspectRatio),
   resolution |-> DefaultResolution,
   fps |-> Fps, camera_fixed |-> FALSE,
   image |-> TextOr(inputData, "image", NoText)]
ReplicateInput(inputData) ==
  [prompt |-> TextOr(inputData, "prompt", DefaultPrompt),
   duration |-> DurationOr(inputData, DefaultDuration),
   aspect_ratio |-> StringOr(inputData, "aspect_ratio", DefaultAspectRatio),
   resolution |-> StringOr(inputData, "resolution", DefaultResolution),
   fps |-> Fps, camera_fixed |-> FALSE,
   image |-> TextOr(inputData, "image", NoText)]

\* a body with a one-character prompt and nothing else
PlainBody == [NoBody EXCEPT !.given = {"prompt"}, !.prompt = [NoText EXCEPT !.core = 1]]

\* the submissions whose user row is written and whose job row is not yet
Starting == {h \in Handlers : h.pc = "gen_insert"}

\* the validation result (lines 55-61), then the upsert of the temporary
\* user (lines 63-91)
GenSubmit(body) ==
  /\ nextId + BagCardinality([h \in Starting |-> hs[h]]) <= MaxJobs
  /\ LET me == [Idle EXCEPT !.kind = "generate", !.body = body]
     IN IF ValidationErrors(body) # <<>>
        THEN Accept([me EXCEPT !.pc = "done", !.resp = BadRequest(body)])
        ELSE \E ok \in BOOLEAN :
               Accept(IF ok
                      THEN [me EXCEPT !.pc = "gen_insert", !.writes = 1]
                      ELSE [me EXCEPT !.pc = "done", !.werr = TRUE,
                                      !.resp = [NoResp EXCEPT !.code = 500]])
  /\ UNCHANGED <<rows, nextId, preds, params, inputs>>

\* a submission that passes the validation
GenUpsert == GenSubmit(PlainBody)

\* insert of the job row with status pending (lines 93-114)
GenInsert ==
  \E h \in Handlers :
    /\ h.pc = "gen_insert"
    /\ \E ok \in BOOLEAN :
         IF ok
         THEN /\ rows' = [j \in DOMAIN rows \cup {nextId} |->
                            IF j = nextId THEN NewRow ELSE rows[j]]
              /\ params' = [j \in DOMAIN params \cup {nextId} |->
                              IF j = nextId THEN RowParams(h.body) ELSE params[j]]
              /\ nextId' = nextId + 1
              /\ Step(h, [h EXCEPT !.pc = "gen_create", !.id = nextId,
                                   !.gen = NewRow, !.after = NewRow,
                                   !.writes = @ + 1])
         ELSE /\ Step(h, [h EXCEPT !.pc = "done", !.werr = TRUE,
                                   !.resp = [NoResp EXCEPT !.code = 500]])
              /\ UNCHANGED <<rows, nextId, params>>
    /\ UNCHANGED <<preds, inputs>>

\* service lines 116-121: client.predictions.create raised; the handler goes on
\* to its catch blocks
\* (variant: the call is made again)
CreateFailed_m(h) ==
  [h EXCEPT !.pc = "gen_create", !.calls = @ + 1, !.cerr = TRUE,
            !.err = CreateErrorText]
CreateFailed(h) ==
  [h EXCEPT !.pc = "gen_fail", !.calls = @ + 1, !.cerr = TRUE,
            !.err = CreateErrorText]

\* startVideoGeneration up to client.predictions.create (service lines 65-97)
GenCreate ==
  \E h \in Handlers :
    /\ h.pc = "gen_create"
    /\ \/ /\ preds' = [p \in DOMAIN preds \cup {PredId(h.id)} |->
                         IF p = PredId(h.id) THEN NewPred ELSE preds[p]]
          /\ inputs' = [p \in DOMAIN inputs \cup {PredId(h.id)} |->
                           IF p = PredId(h.id)
                           THEN ReplicateInput(InputData(h.body)) ELSE inputs[p]]
          /\ Step(h, [h EXCEPT !.pc = "gen_update", !.calls = @ + 1])
       \/ /\ Step(h, CreateFailed(h))
          /\ UNCHANGED <<preds, inputs>>
    /\ UNCHANGED <<rows, nextId, params>>

\* the update with the prediction id (service lines 103-115), then the 201
\* response (route lines 128-132); the update's error is not looked at
GenUpdate ==
  \E h \in Handlers :
    /\ h.pc = "gen_update"
    /\ \E ok \in BOOLEAN :
         /\ rows' = StoreAfterUpdate(h.id, ProcessingPatch(PredId(h.id)), ok)
         /\ Step(h, [h EXCEPT
                    !.pc = "done", !.writes = @ + 1, !.werr = ~ok,
                    !.issued = ProcessingPatch(PredId(h.id)),
                    !.before = RowOf(h.id),
                    !.after = IF h.id \in DOMAIN rows THEN rows'[h.id] ELSE NoRow,
                    !.resp = [NoResp EXCEPT !.code = 201, !.status = PROCESSING]])
    /\ UNCHANGED <<nextId, preds, params, inputs>>

\* the service's catch block: update to failed, rethrow (service lines 116-133)
GenFail ==
  \E h \in Handlers :
    /\ h.pc = "gen_fail"
    /\ \E ok \in BOOLEAN :
         /\ rows' = StoreAfterUpdate(h.id, FailedPatch(h.err), ok)
         /\ Step(h, [h EXCEPT
                    !.pc = "gen_catch", !.writes = @ + 1, !.werr = ~ok,
                    !.issued = FailedPatch(h.err),
                    !.before = RowOf(h.id),
                    !.after = IF h.id \in DOMAIN rows THEN rows'[h.id] ELSE NoRow])
    /\ UNCHANGED <<nextId, preds, params, inputs>>

\* the route's catch block: update to failed again, 500 (route lines 133-149)
GenCatch ==
  \E h \in Handlers :
    /\ h.pc = "gen_catch"
    /\ \E ok \in BOOLEAN :
         /\ rows' = StoreAfterUpdate(h.id, FailedPatch(h.err), ok)
         /\ Step(h, [h EXCEPT
                    !.pc = "done", !.writes = @ + 1, !.werr = h.werr \/ ~ok,
                    !.issued = FailedPatch(h.err),
                    !.before = RowOf(h.id),
                    !.after = IF h.id \in DOMAIN rows THEN rows'[h.id] ELSE NoRow,
                    !.resp = [NoResp EXCEPT !.code = 500]])
    /\ UNCHANGED <<nextId, preds, params, inputs>>

Generate ==
  \/ GenUpsert
  \/ GenInsert \/ GenCreate \/ GenUpdate \/ GenFail \/ GenCatch

\* ----------------------------------------------------- GET /status/:id
\* line 179: only a processing row with an external id is reconciled
\* (variant: the status is not looked at)
ShouldReconcile_m(gen) == Truthy(gen.external_id)
ShouldReconcile(gen) == gen.status = PROCESSING /\ Truthy(gen.external_id)

\* line 176 of the service: the media is there
VideoReady(pred) == pred.status = "succeeded" /\ Truthy(pred.output)

\* line 204: the provider's error text, or the generic one
\* (variant: no fallback text)
FailureMessage_m(pred) == pred.error
FailureMessage(pred) == IF Truthy(pred.error) THEN pred.error ELSE GenericFailure

\* lines 188-195: the update to completed
\* (variant: the media URL is not stored)
CompletedPatch_m(url, pred) ==
  [set |-> {"status", "output_data"},
   vals |-> [NoRow EXCEPT !.status = COMPLETED, !.output_data = pred]]
CompletedPatch(url, pred) ==
  [set |-> {"status", "video_url", "output_data"},
   vals |-> [NoRow EXCEPT !.status = COMPLETED, !.video_url = url,
                          !.output_data = pred]]

\* lines 197-198 and 208: what the handler changes in its copy of the row
\* (variant: the URL is not copied)
GenAfterCompleted_m(gen, url) == [gen EXCEPT !.status = COMPLETED]
GenAfterCompleted(gen, url) == [gen EXCEPT !.status = COMPLETED, !.video_url = url]
GenAfterFailed(gen, pred) == [gen EXCEPT !.status = FAILED]

\* lines 216-224: the body of the 200 response (the id and the timestamps,
\* which no handler changes, are left out)
StatusBody(gen) ==
  [code |-> 200, status |-> gen.status, video_url |-> gen.video_url,
   thumbnail_url |-> gen.thumbnail_url, error_message |-> gen.error_message]

NotFound == [NoResp EXCEPT !.code = 404]

\* lines 172, 286 and 349: the select failed or found no row
\* (variant: only a failed select counts)
NoSuchRow_m(ok, id) == ~ok
NoSuchRow(ok, id) == ~ok \/ id \notin DOMAIN rows

\* the select of the row (lines 166-176) and the test of line 179
StatusRead(id) ==
  /\ \E ok \in BOOLEAN :
       LET gen == RowOf(id)
           me == [Idle EXCEPT !.kind = "status", !.id = id]
       IN IF NoSuchRow(ok, id)
          THEN Accept([me EXCEPT !.pc = "done", !.resp = NotFound])
          ELSE IF ShouldReconcile(gen)
               THEN Accept([me EXCEPT !.pc = "st_check", !.gen = gen,
                                      !.seen = gen, !.after = gen])
               ELSE Accept([me EXCEPT !.pc = "done", !.gen = gen,
                                      !.seen = gen, !.after = gen,
                                      !.resp = StatusBody(gen)])
  /\ UNCHANGED <<rows, nextId, preds, params, inputs>>

\* lines 183, 199 and 209: where the handler goes with the state it was told
\* (variant: canceled is taken for failed)
AfterCheck_m(status) ==
  IF status = "succeeded" THEN "st_fetch"
  ELSE IF status \in {"failed", "canceled"} THEN "st_failed"
  ELSE "done"
AfterCheck(status) ==
  IF status = "succeeded" THEN "st_fetch"
  ELSE IF status = "failed" THEN "st_failed"
  ELSE "done"

\* lines 210-213: a provider call raised; the handler goes on to the response
\* with the row it read
\* (variant: the error marks the job failed)
StatusCatch_m(me) == [me EXCEPT !.pc = "st_failed", !.cerr = TRUE]
StatusCatch(me) ==
  [me EXCEPT !.pc = "done", !.cerr = TRUE, !.resp = StatusBody(me.gen)]

\* checkGenerationStatus (line 181): predictions.get returns or throws
StatusCheck ==
  \E h \in Handlers :
    /\ h.pc = "st_check"
    /\ LET me == [h EXCEPT !.calls = @ + 1]
           pred == preds[me.gen.external_id]
       IN \/ Step(h, [me EXCEPT !.obs = pred, !.pc = AfterCheck(pred.status),
                                !.resp = IF AfterCheck(pred.status) = "done"
                                      THEN StatusBody(me.gen) ELSE NoResp])
          \/ Step(h, StatusCatch(me))
    /\ UNCHANGED <<rows, nextId, preds, params, inputs>>

\* getGeneratedVideo (line 185): a second predictions.get, which throws when
\* the call fails or the media is not there
StatusFetch ==
  \E h \in Handlers :
    /\ h.pc = "st_fetch"
    /\ LET me == [h EXCEPT !.calls = @ + 1]
           pred == preds[me.gen.external_id]
       IN \/ /\ VideoReady(pred)
             /\ Step(h, [me EXCEPT !.pc = "st_completed", !.url = pred.output])
          \/ /\ ~VideoReady(pred)
             /\ Step(h, StatusCatch(me))
          \/ Step(h, StatusCatch(me))
    /\ UNCHANGED <<rows, nextId, preds, params, inputs>>

\* lines 187-198 and the response: the update's error is not looked at
StatusCompleted ==
  \E h \in Handlers :
    /\ h.pc = "st_completed"
    /\ \E ok \in BOOLEAN :
         LET me == h
             patch == CompletedPatch(me.url, me.obs)
             gen == GenAfterCompleted(me.gen, me.url)
         IN /\ rows' = StoreAfterUpdate(me.id, patch, ok)
            /\ Step(h, [me EXCEPT
                       !.pc = "done", !.writes = @ + 1, !.werr = ~ok, !.issued = patch,
                       !.before = RowOf(me.id),
                       !.after = IF me.id \in DOMAIN rows THEN rows'[me.id] ELSE NoRow,
                       !.gen = gen, !.resp = StatusBody(gen)])
    /\ UNCHANGED <<nextId, preds, params, inputs>>

\* lines 199-209 and the response: the update's error is not looked at
StatusFailed ==
  \E h \in Handlers :
    /\ h.pc = "st_failed"
    /\ \E ok \in BOOLEAN :
         LET me == h
             patch == FailedPatch(FailureMessage(me.obs))
             gen == GenAfterFailed(me.gen, me.obs)
         IN /\ rows' = StoreAfterUpdate(me.id, patch, ok)
            /\ Step(h, [me EXCEPT
                       !.pc = "done", !.writes = @ + 1, !.werr = ~ok, !.issued = patch,
                       !.before = RowOf(me.id),
                       !.after = IF me.id \in DOMAIN rows THEN rows'[me.id] ELSE NoRow,
                       !.gen = gen, !.resp = StatusBody(gen)])
    /\ UNCHANGED <<nextId, preds, params, inputs>>

Status ==
  \/ \E id \in JobIds : StatusRead(id)
  \/ StatusCheck \/ StatusFetch \/ StatusCompleted \/ StatusFailed

\* ---------------------------------------------------- POST /cancel/:id
\* line 292: only a processing row is cancelled
\* (variant: a pending row is cancelled too)
CanCancel_m(gen) == gen.status \notin Terminal
CanCancel(gen) == gen.status = PROCESSING

CancelledPatch == [set |-> {"status"}, vals |-> [NoRow EXCEPT !.status = CANCELLED]]
Conflict == [NoResp EXCEPT !.code = 400]
CancelOk == [NoResp EXCEPT !.code = 200, !.status = CANCELLED]

\* lines 309-312: .update({status}).eq('id', id), whatever the row holds now
\* (variant: the update is made only where the status is still processing)
CancelUpdate_m(id, ok) ==
  IF ok /\ RowOf(id).status = PROCESSING THEN UpdateRow(id, CancelledPatch) ELSE rows
CancelUpdate(id, ok) == StoreAfterUpdate(id, CancelledPatch, ok)

\* the select of the row and the tests of lines 286-299
CancelRead(id) ==
  /\ \E ok \in BOOLEAN :
       LET gen == RowOf(id)
           me == [Idle EXCEPT !.kind = "cancel", !.id = id]
       IN IF NoSuchRow(ok, id)
          THEN Accept([me EXCEPT !.pc = "done", !.resp = NotFound])
          ELSE IF ~CanCancel(gen)
               THEN Accept([me EXCEPT !.pc = "done", !.gen = gen,
                                      !.seen = gen, !.after = gen,
                                      !.resp = Conflict])
               ELSE Accept([me EXCEPT !.gen = gen, !.seen = gen, !.after = gen,
                                      !.pc = IF Truthy(gen.external_id)
                                           THEN "cn_call" ELSE "cn_write"])
  /\ UNCHANGED <<rows, nextId, preds, params, inputs>>

\* lines 300-306: whatever the provider's answer, the handler goes on to the
\* update of the row
\* (variant: the provider's error ends the request)
AfterCancelCall_m(me, threw) ==
  IF threw
  THEN [me EXCEPT !.pc = "done", !.calls = @ + 1, !.cerr = TRUE,
                  !.resp = [NoResp EXCEPT !.code = 500]]
  ELSE [me EXCEPT !.pc = "cn_write", !.calls = @ + 1]
AfterCancelCall(me, threw) ==
  [me EXCEPT !.pc = "cn_write", !.calls = @ + 1, !.cerr = threw]

\* cancelGeneration (line 301, service lines 196-211): predictions.cancel
\* succeeds or throws; the service turns the throw into false
CancelCall ==
  \E h \in Handlers :
    /\ h.pc = "cn_call"
    /\ \/ /\ preds' = CancelPred(h.gen.external_id)
          /\ Step(h, AfterCancelCall(h, FALSE))
       \/ /\ Step(h, AfterCancelCall(h, TRUE))
          /\ UNCHANGED preds
    /\ UNCHANGED <<rows, nextId, params, inputs>>

\* lines 308-325: the update to cancelled; its error gives a 500
CancelWrite ==
  \E h \in Handlers :
    /\ h.pc = "cn_write"
    /\ \E ok \in BOOLEAN :
         LET me == h
         IN /\ rows' = CancelUpdate(me.id, ok)
            /\ Step(h, [me EXCEPT
                       !.pc = "done", !.writes = @ + 1, !.werr = ~ok,
                       !.issued = CancelledPatch,
                       !.before = RowOf(me.id),
                       !.after = IF me.id \in DOMAIN rows THEN rows'[me.id] ELSE NoRow,
                       !.resp = IF ok THEN CancelOk ELSE [NoResp EXCEPT !.code = 500]])
    /\ UNCHANGED <<nextId, preds, params, inputs>>

Cancel ==
  \/ \E id \in JobIds : CancelRead(id)
  \/ CancelCall \/ CancelWrite

\* ---------------------------------------------------------- DELETE /:id
\* the select of the id (lines 342-352)
DeleteRead(id) ==
  /\ \E ok \in BOOLEAN :
       LET me == [Idle EXCEPT !.kind = "delete", !.id = id]
       IN IF NoSuchRow(ok, id)
          THEN Accept([me EXCEPT !.pc = "done", !.resp = NotFound])
          ELSE Accept([me EXCEPT !.pc = "dl_delete"])
  /\ UNCHANGED <<rows, nextId, preds, params, inputs>>

\* lines 355-358: .delete().eq('id', id) takes the row out of the table,
\* whatever the row holds
\* (variant: only a row that is no longer in progress is deleted)
DeleteById_m(table, id, ok) ==
  IF ok /\ RowOf(id).status \in Terminal
  THEN [j \in DOMAIN table \ {id} |-> table[j]] ELSE table
DeleteById(table, id, ok) ==
  IF ok THEN [j \in DOMAIN table \ {id} |-> table[j]] ELSE table

\* lines 354-370: the delete; its error gives a 500
DeleteRow ==
  \E h \in Handlers :
    /\ h.pc = "dl_delete"
    /\ \E ok \in BOOLEAN :
         /\ rows' = DeleteById(rows, h.id, ok)
         /\ params' = DeleteById(params, h.id, ok)
         /\ Step(h, [h EXCEPT
                    !.pc = "done", !.writes = @ + 1, !.werr = ~ok,
                    !.before = RowOf(h.id),
                    !.resp = [NoResp EXCEPT !.code = IF ok THEN 200 ELSE 500]])
    /\ UNCHANGED <<nextId, preds, inputs>>

Delete ==
  \/ \E id \in JobIds : DeleteRead(id)
  \/ DeleteRow

\* the response is out and the request is over
Finish ==
  \E h \in Handlers :
    /\ h.pc = "done"
    /\ hs' = hs (-) SetToBag({h})
    /\ UNCHANGED <<rows, nextId, preds, params, inputs, apart>>

Next ==
  \/ Finish
  \/ Generate
  \/ Status
  \/ Cancel
  \/ Delete
  \/ ProviderAdvance

Spec == Init /\ [][Next]_vars

\* ------------------------------------------- one request at a time
\* the same handlers when no request arrives while another is being served
Alone == hs = EmptyBag

NextSeq ==
  \/ Finish
  \/ Alone /\ GenUpsert
  \/ GenInsert \/ GenCreate \/ GenUpdate \/ GenFail \/ GenCatch
  \/ Alone /\ \E id \in JobIds : StatusRead(id)
  \/ StatusCheck \/ StatusFetch \/ StatusCompleted \/ StatusFailed
  \/ Alone /\ \E id \in JobIds : CancelRead(id)
  \/ CancelCall \/ CancelWrite
  \/ Alone /\ \E id \in JobIds : DeleteRead(id)
  \/ DeleteRow
  \/ ProviderAdvance

SpecSeq == Init /\ [][NextSeq]_vars

\* ------------------------------------------- repeated polling
\* the handlers that hold a provider call that raised or a store write that
\* was rejected
Troubled(b) ==
  BagCardinality([h \in {x \in BagToSet(b) : x.cerr \/ x.werr} |-> b[h]])

\* the step met no failure of the provider or of the store
Clean == Troubled(hs') <= Troubled(hs)

\* a poll of job id arrives and finds a row to reconcile
PollArrives(id) ==
  /\ StatusRead(id)
  /\ \E h \in BagToSet(hs') : h.kind = "status" /\ h.id = id /\ h.pc = "st_check"

\* submissions and status polls only: nobody cancels, nobody deletes
NextPoll ==
  \/ Finish
  \/ GenUpsert
  \/ GenInsert \/ GenCreate \/ GenUpdate \/ GenFail \/ GenCatch
  \/ \E id \in JobIds : StatusRead(id)
  \/ StatusCheck \/ StatusFetch \/ StatusCompleted \/ StatusFailed
  \/ ProviderAdvance

\* the client keeps polling, every request that is being served goes on, the
\* provider finishes its predictions, and the calls to the provider and the
\* writes to the store do not fail for ever
PollFairness ==
  /\ SF_vars(Finish)
  /\ SF_vars(ProviderAdvance)
  /\ \A id \in JobIds : SF_vars(PollArrives(id))
  /\ SF_vars(StatusCheck) /\ SF_vars(StatusCheck /\ Clean)
  /\ SF_vars(StatusFetch) /\ SF_vars(StatusFetch /\ Clean)
  /\ SF_vars(StatusCompleted) /\ SF_vars(StatusCompleted /\ Clean)
  /\ SF_vars(StatusFailed) /\ SF_vars(StatusFailed /\ Clean)
  /\ SF_vars(GenInsert) /\ SF_vars(GenCreate) /\ SF_vars(GenUpdate)
  /\ SF_vars(GenFail) /\ SF_vars(GenCatch)

SpecPoll == Init /\ [][NextPoll]_vars /\ PollFairness

\* ------------------------------------------- GET /list
DefaultPage == 1
DefaultLimit == 10

\* the values a client may send for page and for limit
PageChoices == {NoParam} \cup {[given |-> TRUE, n |-> k] : k \in 1..3}
LimitChoices == {NoParam} \cup {[given |-> TRUE, n |-> k] : k \in 1..3}

\* const { page = 1, limit = 10 } = req.query: a default is a number, a value
\* of the query a string
WithDefault(q, d) == IF q.given THEN q ELSE [given |-> FALSE, n |-> d]

\* what a + b is in JavaScript when b is a string: the digits of a followed
\* by those of b; Shift(b) is 10 to the number of decimal digits of b
RECURSIVE Shift(_)
Shift(b) == IF b < 10 THEN 10 ELSE 10 * Shift(b \div 10)
Concat(a, b) == a * Shift(b) + b
Plus(a, q) == IF q.given THEN Concat(a, q.n) ELSE a + q.n

Offset(page, limit) == (page.n - 1) * limit.n

\* .order('created_at', { ascending: false }): ids are handed out in the order
\* of creation, so the newest row has the largest id
RankOf(j) == Cardinality({k \in DOMAIN rows : k > j})
\* .range(from, to): the rows ranked from..to, both ends included
Range(from, to) ==
  LET last == IF to < Cardinality(DOMAIN rows) THEN to ELSE Cardinality(DOMAIN rows) - 1
  IN  IF last < from THEN <<>> ELSE [i \in 1..(last - from + 1) |-> CHOOSE j \in DOMAIN rows : RankOf(j) = from + i - 1]

Ceil(a, b) == (a + b - 1) \div b

ListRequest ==
  /\ listing.pc = "idle"
  /\ \E p \in PageChoices, l \in LimitChoices, ok \in BOOLEAN :
       LET page == WithDefault(p, DefaultPage)
           limit == WithDefault(l, DefaultLimit)
           count == Cardinality(DOMAIN rows)
       IN  listing' =
             IF ok
             THEN [pc |-> "done", page |-> p, limit |-> l, code |-> 200,
                   generations |-> Range(Offset(page, limit),
                                        Plus(Offset(page, limit), limit) - 1),
                   pagination |-> [page |-> page.n, limit |-> limit.n,
                                   total |-> count, pages |-> Ceil(count, limit.n)]]
             ELSE [NoListing EXCEPT !.pc = "done", !.page = p, !.limit = l,
                                    !.code = 500]
  /\ UNCHANGED <<router, poller, ledger, deducts, exec>>

\* the table when the request arrives: any number of rows up to MaxRows
InitList ==
  /\ \E n \in 0..MaxRows :
       /\ rows = [j \in 1..n |-> NewRow]
       /\ params = [j \in 1..n |-> RowParams(PlainBody)]
       /\ nextId = n + 1
  /\ preds = <<>>
  /\ inputs = <<>>
  /\ hs = EmptyBag
  /\ Elsewhere

SpecList == InitList /\ [][ListRequest]_vars

\* ------------------------------------------- the page of a generation
\* startGeneration: POST /generate answered 200 with a processing job; the page
\* shows it and pollGenerationStatus sets the interval. Any other answer
\* leaves the page as it was.
StartGeneration ==
  /\ poller = NoPoller
  /\ poller' = [NoPoller EXCEPT !.interval = TRUE, !.shown = PROCESSING,
                                !.job = PROCESSING]
  /\ UNCHANGED <<router, listing, ledger, deducts, exec>>

\* the interval fires: GET /status leaves. The backend reconciles a processing
\* job with the provider and answers with the status it then has, or the
\* request fails (no 2xx answer, or fetch throws).
PollSend ==
  /\ poller.interval
  /\ poller.reply = Null
  /\ poller.polls < MaxPolls
  /\ \E s \in IF poller.job = PROCESSING THEN {PROCESSING, COMPLETED, FAILED}
              ELSE {poller.job} :
       \E answer \in {s, "error"} :
         poller' = [poller EXCEPT !.job = s, !.reply = answer, !.polls = @ + 1]
  /\ UNCHANGED <<router, listing, ledger, deducts, exec>>

\* the interval after an answer with this status: the callback clears it on
\* completed and on failed (line 180)
AfterStatus(status) == status \notin {COMPLETED, FAILED}

\* the answer arrives (lines 176-196); a failed request changes nothing
PollReceive ==
  /\ poller.reply # Null
  /\ poller' = IF poller.reply = "error"
               THEN [poller EXCEPT !.reply = Null]
               ELSE [poller EXCEPT !.reply = Null, !.shown = poller.reply,
                                   !.seen = poller.reply,
                                   !.interval = @ /\ AfterStatus(poller.reply)]
  /\ UNCHANGED <<router, listing, ledger, deducts, exec>>

\* cancelGeneration: POST /cancel; the backend cancels a processing job and
\* answers 200, and answers 400 for any other; on 200 the page shows cancelled
\* and clears the progress interval, which is not the polling interval
CancelGeneration ==
  /\ poller.shown # Null
  /\ poller.job = PROCESSING
  /\ \E ok \in BOOLEAN :
       poller' = IF ok THEN [poller EXCEPT !.job = CANCELLED, !.shown = CANCELLED]
                 ELSE poller
  /\ UNCHANGED <<router, listing, ledger, deducts, exec>>

NextPage == StartGeneration \/ PollSend \/ PollReceive \/ CancelGeneration

SpecPage == Init /\ [][NextPage]_vars

\* ------------------------------------------- credits and payments
\* the payment intents that succeeded (pi_0 is one that did not) and the credits a
\* package carries in its metadata
Payments == {"pi_1"}
PackCredits == 2
\* the values a client may send as credits of POST /deduct-credits
CreditChoices == {1, 2}

\* a row of credit_transactions of the user, and the route that wrote it
Transaction(type, amount, payment, by) ==
  [type |-> type, amount |-> amount, payment |-> payment, by |-> by]

\* the reduce of /balance and of /deduct-credits: purchases and refunds count
\* for the user, every other row against
Signed(t) == IF t.type \in {"purchase", "refund"} THEN t.amount ELSE 0 - t.amount
RECURSIVE SumOf(_, _)
SumOf(l, S) ==
  IF S = {} THEN 0
  ELSE LET t == CHOOSE x \in S : TRUE
       IN  l[t] * Signed(t) + SumOf(l, S \ {t})
Balance(l) == SumOf(l, BagToSet(l))

\* the table takes no more than MaxTransactions rows in the model
Room == BagCardinality(ledger) < MaxTransactions

\* POST /webhook with a checkout.session.completed event of a paid session;
\* Stripe delivers an event at least once. An insert that fails is logged and
\* the delivery is acknowledged all the same.
Webhook ==
  /\ Room
  /\ \E p \in Payments, ok \in BOOLEAN :
       ledger' = IF ok THEN ledger (+) SetToBag({Transaction("purchase", PackCredits, p, "webhook")})
                 ELSE ledger
  /\ UNCHANGED <<router, listing, poller, deducts, exec>>

\* what /process-success does with a payment intent it retrieved
CreditIntent(l, p, ok) ==
  IF ok /\ p \in Payments
  THEN l (+) SetToBag({Transaction("purchase", PackCredits, p, "process-success")}) ELSE l

\* POST /process-success, called by the page the checkout returns to: 400 for
\* an intent that has not succeeded, else the insert
ProcessSuccess ==
  /\ Room
  /\ \E p \in Payments \cup {"pi_0"}, ok \in BOOLEAN :
       ledger' = CreditIntent(ledger, p, ok)
  /\ UNCHANGED <<router, listing, poller, deducts, exec>>

\* POST /deduct-credits up to its check (lines 713-744): the balance is read
\* and compared; the handler goes on to the insert when it covers the credits
DeductRead ==
  /\ BagCardinality(deducts) < NumDeducts
  /\ \E credits \in CreditChoices, ok \in BOOLEAN :
       deducts' = IF ok /\ ~(Balance(ledger) < credits)
                  THEN deducts (+) SetToBag({[balance |-> Balance(ledger),
                                              credits |-> credits]})
                  ELSE deducts
  /\ UNCHANGED <<router, listing, poller, ledger, exec>>

\* the insert of the usage row (lines 746-770) and the response
DeductInsert ==
  /\ Room
  /\ \E h \in BagToSet(deducts), ok \in BOOLEAN :
       /\ ledger' = IF ok THEN ledger (+) SetToBag({Transaction("usage", h.credits, Null, "deduct-credits")})
                    ELSE ledger
       /\ deducts' = deducts (-) SetToBag({h})
  /\ UNCHANGED <<router, listing, poller, exec>>

NextCredits == Webhook \/ ProcessSuccess \/ DeductRead \/ DeductInsert

SpecCredits == Init /\ [][NextCredits]_vars

\* ------------------------------------------- ModelExecutionService
\* startExecution (lines 20-61): the row is inserted, the prediction started,
\* the row set to processing, and pollExecutionResult is called, not awaited
StartExecution ==
  /\ exec.pc = "idle"
  /\ exec' = [exec EXCEPT !.pc = "polling", !.prediction = "starting",
                          !.status = "processing"]
  /\ UNCHANGED <<router, listing, poller, ledger, deducts>>

\* the prediction on Replicate's side
PredictionEnds == {"succeeded", "failed", "canceled"}
PredictionAdvance ==
  /\ exec.prediction \in {"starting", "processing"}
  /\ \E st \in ({"processing"} \ {exec.prediction}) \cup PredictionEnds :
       exec' = [exec EXCEPT !.prediction = st]
  /\ UNCHANGED <<router, listing, poller, ledger, deducts>>

\* the status onProgress writes for a prediction (lines 84-85)
ProgressStatus(st) ==
  IF st = "succeeded" THEN "completed" ELSE IF st = "failed" THEN "failed" ELSE "processing"
\* the status of the final update (line 98)
FinalStatus(st) == IF st = "succeeded" THEN "completed" ELSE "failed"

\* one round of poll (replicateService lines 110-126): getPrediction, then
\* onProgress is called and not awaited, so its update is under way when the
\* round goes on; an ended prediction resolves the promise, any other sets the
\* next round; getPrediction throwing rejects it
Poll ==
  /\ exec.pc = "polling"
  /\ exec.polls < MaxExecPolls
  /\ \E ok \in BOOLEAN :
       exec' = IF ok
               THEN [exec EXCEPT
                       !.polls = @ + 1,
                       !.writes = @ \cup {ProgressStatus(exec.prediction)},
                       !.pc = IF exec.prediction \in PredictionEnds
                              THEN "final" ELSE "polling",
                       !.outcome = IF exec.prediction \in PredictionEnds
                                   THEN FinalStatus(exec.prediction) ELSE Null]
               ELSE [exec EXCEPT !.polls = @ + 1, !.pc = "final",
                                 !.outcome = "failed"]
  /\ UNCHANGED <<router, listing, poller, ledger, deducts>>

\* an update started by onProgress reaches the table, or is lost
ProgressLands ==
  /\ \E w \in exec.writes, ok \in BOOLEAN :
       exec' = [exec EXCEPT !.writes = @ \ {w},
                            !.status = IF ok THEN w ELSE @]
  /\ UNCHANGED <<router, listing, poller, ledger, deducts>>

\* the final update of pollExecutionResult (lines 95-104), or that of its
\* catch (lines 110-116)
FinalWrite ==
  /\ exec.pc = "final"
  /\ \E ok \in BOOLEAN :
       exec' = [exec EXCEPT !.pc = "done", !.final = ok,
                            !.status = IF ok THEN exec.outcome ELSE @]
  /\ UNCHANGED <<router, listing, poller, ledger, deducts>>

NextExec == StartExecution \/ PredictionAdvance \/ Poll \/ ProgressLands \/ FinalWrite

SpecExec == Init /\ [][NextExec]_vars

\* ------------------------------------------- submissions of any body
\* the values a client may send for each field: <<sent, value>>
PromptChoices ==
  {<<FALSE, NoText>>,
   <<TRUE, NoText>>,
   <<TRUE, [NoText EXCEPT !.lead = 2, !.trail = 1]>>,
   <<TRUE, [NoText EXCEPT !.core = 1]>>,
   <<TRUE, [NoText EXCEPT !.lead = 1, !.core = MaxPromptLength, !.trail = 1]>>,
   <<TRUE, [NoText EXCEPT !.core = MaxPromptLength + 1]>>,
   <<TRUE, [NoText EXCEPT !.str = FALSE, !.core = 3]>>}
DurationChoices == {<<FALSE, 0>>, <<TRUE, 10>>, <<TRUE, 7>>}
AspectRatioChoices == {<<FALSE, "">>, <<TRUE, "9:16">>, <<TRUE, "2:1">>}
ResolutionChoices == {<<FALSE, "">>, <<TRUE, "1080p">>, <<TRUE, "4k">>}
ImageChoices ==
  {<<FALSE, NoText>>,
   <<TRUE, [NoText EXCEPT !.core = 20]>>,
   <<TRUE, [NoText EXCEPT !.str = FALSE, !.core = 2]>>}

Sent(f, choice) == IF choice[1] THEN {f} ELSE {}

Bodies ==
  {[given |-> Sent("prompt", p) \cup Sent("image", i) \cup Sent("duration", d)
                \cup Sent("aspect_ratio", a) \cup Sent("resolution", r),
    prompt |-> p[2], image |-> i[2], duration |-> d[2],
    aspect_ratio |-> a[2], resolution |-> r[2]] :
     p \in PromptChoices, i \in ImageChoices, d \in DurationChoices,
     a \in AspectRatioChoices, r \in ResolutionChoices}

\* POST /generate with any of these bodies, one request at a time
NextSubmit ==
  \/ Alone /\ \E body \in Bodies : GenSubmit(body)
  \/ GenInsert \/ GenCreate \/ GenUpdate \/ GenFail \/ GenCatch
  \/ Finish

SpecSubmit == Init /\ [][NextSubmit]_vars

\* ================================================================ claims
Polls == {h \in Handlers : h.kind = "status"}
Cancels == {h \in Handlers : h.kind = "cancel"}
Generates == {h \in Handlers : h.kind = "generate"}
Returned(h) == h.pc = "done"

\* C1: once the stored status of a job is completed, failed or cancelled, no
\* later write of any handler changes it, under any interleaving; the row
\* only changes again by being deleted.
C1_TerminalStatusIsFinal ==
  [][\A j \in DOMAIN rows :
       rows[j].status \in Terminal /\ j \in DOMAIN rows'
         => rows'[j].status = rows[j].status]_vars

\* C2: when POST /generate returns after having created the job row (201 or
\* 500), the status stored in that row is processing or failed, whatever the
\* provider's create call and the handler's store updates did.
C2_GenerateNeverLeavesPending ==
  \A h \in Generates :
    Returned(h) /\ h.id \in JobIds /\ h.after # NoRow
      => h.after.status \in {PROCESSING, FAILED}

\* C3: a status poll that read a row which is not processing, or has no
\* external id, has returned that row with no provider call and no store
\* write; so a poll that starts on a completed, failed or cancelled job never
\* changes it.
C3_PollOfSettledRowIsPureRead ==
  \A h \in Polls :
    h.seen # NoRow
      /\ (h.seen.status # PROCESSING \/ h.seen.external_id = Null)
      => /\ Returned(h)
         /\ h.calls = 0
         /\ h.writes = 0
         /\ h.resp.code = 200
         /\ h.resp.status = h.seen.status
C3_Witness ==
  \E h \in Polls :
    /\ Returned(h) /\ h.seen.status \in Terminal
    /\ h.calls = 0 /\ h.writes = 0
    /\ h.id \in DOMAIN rows /\ rows[h.id].status = h.seen.status

\* C4: POST /cancel on a row read as pending, completed, failed or cancelled
\* answers 400 with no provider call and no store write; a cancellation that
\* called the provider or wrote the row read status processing.
C4_CancelOnlyWhenProcessing ==
  \A h \in Cancels :
    /\ h.seen # NoRow /\ h.seen.status # PROCESSING
         => /\ Returned(h)
            /\ h.resp.code = 400
            /\ h.calls = 0
            /\ h.writes = 0
    /\ h.calls > 0 \/ h.writes > 0 \/ h.resp.code = 200
         => h.seen.status = PROCESSING
C4_Witness ==
  \E h \in Cancels :
    /\ Returned(h) /\ h.seen.status = COMPLETED /\ h.resp.code = 400
    /\ h.id \in DOMAIN rows /\ rows[h.id] = h.seen

\* C5: a cancellation that read status processing issues the update to
\* cancelled and answers 200 with status cancelled whether the provider's
\* cancel succeeded or threw: the outcome of the provider's call changes
\* nothing, only an error of the store update itself gives a 500.
C5_CancelIgnoresProviderFailure ==
  \A h \in Cancels :
    Returned(h) /\ h.seen.status = PROCESSING
      => /\ h.issued = CancelledPatch
         /\ h.writes = 1
         /\ IF h.werr
            THEN h.resp.code = 500
            ELSE /\ h.resp.code = 200
                 /\ h.resp.status = CANCELLED
                 /\ h.after # NoRow => h.after.status = CANCELLED
C5_Witness ==
  \E h \in Cancels :
    /\ Returned(h) /\ h.seen.status = PROCESSING /\ h.cerr
    /\ h.resp.code = 200 /\ h.resp.status = CANCELLED
    /\ h.id \in DOMAIN rows /\ rows[h.id].status = CANCELLED

\* C6 as stated: a poll of a processing job that was told succeeded by the
\* provider issues, before it returns, the update to completed with the
\* provider's media URL and answers completed with that URL.
C6_SucceededAlwaysCompletes ==
  \A h \in Polls :
    Returned(h) /\ h.obs.status = "succeeded"
      => /\ h.issued.vals.status = COMPLETED
         /\ h.resp.status = COMPLETED
         /\ h.resp.video_url = VideoUrl

\* C6, amended: a poll that was told succeeded and whose getGeneratedVideo
\* call returned the media URL issues the update to completed with that URL
\* (the row holds both once the store has applied it) and answers completed
\* with that URL; when getGeneratedVideo throws, nothing is written.
C6_SucceededWithMediaCompletes ==
  \A h \in Polls :
    Returned(h) /\ h.obs.status = "succeeded"
      => IF h.url # Null
         THEN /\ h.url = preds[h.seen.external_id].output
              /\ {"status", "video_url"} \subseteq h.issued.set
              /\ h.issued.vals.status = COMPLETED
              /\ h.issued.vals.video_url = h.url
              /\ h.resp.code = 200
              /\ h.resp.status = COMPLETED
              /\ h.resp.video_url = h.url
              /\ ~h.werr /\ h.after # NoRow
                   => /\ h.after.status = COMPLETED
                      /\ h.after.video_url = h.url
         ELSE h.cerr /\ h.writes = 0
C6_Witness ==
  \E h \in Polls :
    /\ Returned(h) /\ h.obs.status = "succeeded" /\ h.url = VideoUrl
    /\ h.resp.status = COMPLETED /\ h.resp.video_url = VideoUrl
    /\ h.id \in DOMAIN rows
    /\ rows[h.id].status = COMPLETED /\ rows[h.id].video_url = VideoUrl

\* C7: a poll that was told failed issues the update to failed with the
\* provider's error text, or with 'Generation failed' when there is none, so
\* a row failed by reconciliation never has an empty error_message.
C7_FailedCarriesMessage ==
  /\ \A h \in Polls :
       Returned(h) /\ h.obs.status = "failed"
         => /\ {"status", "error_message"} \subseteq h.issued.set
            /\ h.issued.vals.status = FAILED
            /\ h.issued.vals.error_message =
                 (IF h.obs.error \in {Null, ""}
                  THEN "Generation failed" ELSE h.obs.error)
            /\ h.resp.status = FAILED
  /\ \A j \in DOMAIN rows :
       rows[j].status = FAILED /\ rows[j].external_id # Null
         => rows[j].error_message \notin {Null, ""}
C7_Witness ==
  \E h \in Polls :
    /\ Returned(h) /\ h.obs.status = "failed" /\ h.obs.error = Null
    /\ h.id \in DOMAIN rows
    /\ rows[h.id].status = FAILED
    /\ rows[h.id].error_message = "Generation failed"

\* C8: the body GET /status returns equals the projection (status, video_url,
\* thumbnail_url, error_message) of the row as stored once the handler has
\* made its own write, on every path.
C8_ResponseIsStoredRow ==
  \A h \in Polls :
    Returned(h) /\ h.resp.code = 200 /\ ~h.werr /\ h.after # NoRow
      => /\ h.resp.status = h.after.status
         /\ h.resp.video_url = h.after.video_url
         /\ h.resp.thumbnail_url = h.after.thumbnail_url
         /\ h.resp.error_message = h.after.error_message

\* C9: a poll during which a provider call raised makes no store write and
\* answers 200 with the row it read.
C9_ProviderErrorIsSwallowed ==
  \A h \in Polls :
    h.cerr
      => /\ Returned(h)
         /\ h.writes = 0
         /\ h.issued = NoPatch
         /\ h.resp.code = 200
         /\ h.resp.status = h.seen.status
         /\ h.resp.video_url = h.seen.video_url
         /\ h.resp.error_message = h.seen.error_message
         /\ h.seen.status = PROCESSING
C9_Witness ==
  \E h \in Polls :
    /\ Returned(h) /\ h.cerr /\ h.calls = 2
    /\ h.obs.status = "succeeded"
    /\ h.resp.code = 200 /\ h.resp.status = PROCESSING
    /\ h.id \in DOMAIN rows /\ rows[h.id] = h.seen

\* C10: a poll that was told a state other than succeeded or failed makes no
\* store write and answers with the row it read, which is processing.
C10_InFlightPollWritesNothing ==
  \A h \in Polls :
    h.obs.status \notin {Null, "succeeded", "failed"}
      => /\ Returned(h)
         /\ h.writes = 0
         /\ h.issued = NoPatch
         /\ h.after = h.seen
         /\ h.seen.status = PROCESSING
         /\ h.resp.code = 200
         /\ h.resp.status = PROCESSING
C10_Witness ==
  \E h \in Polls :
    /\ Returned(h) /\ h.obs.status = "processing"
    /\ h.resp.status = PROCESSING
    /\ h.id \in DOMAIN rows /\ rows[h.id] = h.seen

\* the three columns a client is shown
Outcome(row) == <<row.status, row.video_url, row.error_message>>

\* what one poll alone makes of the processing row gen when the provider
\* holds pred (route lines 179-209): completed with the media, failed with
\* the message, or the row as it was
SinglePoll(gen, pred) ==
  IF pred.status = "succeeded" /\ pred.output \notin {Null, ""}
  THEN [gen EXCEPT !.status = COMPLETED, !.video_url = pred.output,
                   !.output_data = pred]
  ELSE IF pred.status = "failed"
  THEN [gen EXCEPT !.status = FAILED,
                   !.error_message = IF pred.error \in {Null, ""}
                                     THEN "Generation failed" ELSE pred.error]
  ELSE gen

\* C11: polls of one processing job that run at the same time, against a
\* provider whose outcome is settled, leave the row that one poll alone would
\* leave: every write of a poll that lands stores exactly that row's status,
\* video_url and error_message, and a poll that writes after another poll has
\* already reconciled the row rewrites it with identical data.
C11_ConcurrentPollsAgree ==
  \A h \in Polls :
    Returned(h) /\ h.writes = 1 /\ ~h.werr /\ h.after # NoRow
      => /\ Outcome(h.after) = Outcome(SinglePoll(h.seen, preds[h.seen.external_id]))
         /\ h.before.status \in {COMPLETED, FAILED} => h.after = h.before

\* a poll that read processing wrote completed over the completed row another
\* poll had stored in between
C11_Witness ==
  \E h \in Polls :
    /\ Returned(h) /\ h.writes = 1 /\ ~h.werr
    /\ h.seen.status = PROCESSING
    /\ h.before.status = COMPLETED
    /\ h.after = h.before

\* C12: the update of cancel carries no condition on the status: a cancel
\* that read processing and whose update the store applies turns the row to
\* cancelled whatever the row holds by then, a row a poll completed in
\* between included, changes no other column and answers 200.
C12_CancelWriteIsUnconditional ==
  \A h \in Cancels :
    Returned(h) /\ h.writes = 1 /\ ~h.werr /\ h.before # NoRow
      => /\ h.seen.status = PROCESSING
         /\ h.after = [h.before EXCEPT !.status = CANCELLED]
         /\ h.resp = CancelOk

\* cancel read processing, a poll completed the row, cancel overwrote it
C12_Witness ==
  \E h \in Cancels :
    /\ Returned(h) /\ h.writes = 1 /\ ~h.werr
    /\ h.seen.status = PROCESSING
    /\ h.before.status = COMPLETED /\ h.before.video_url = VideoUrl
    /\ h.after.status = CANCELLED /\ h.after.video_url = VideoUrl
    /\ h.resp.code = 200

\* C13: in every reachable state a row has a video_url only if its status is
\* completed.
C13_VideoUrlOnlyWhenCompleted ==
  \A j \in DOMAIN rows :
    rows[j].video_url # Null => rows[j].status = COMPLETED

\* C14: in every reachable state a row has an error_message only if its
\* status is failed.
C14_ErrorMessageOnlyWhenFailed ==
  \A j \in DOMAIN rows :
    rows[j].error_message # Null => rows[j].status = FAILED

\* the provider accepted the submission of job j: it holds its prediction
Accepted(j) == PredId(j) \in DOMAIN preds

C16_CreateFailureMarksFailed ==
  /\ \A h \in Generates :
       Returned(h) /\ h.cerr
         => /\ h.resp.code = 500
            /\ h.err = CreateErrorText /\ Truthy(h.err)
            /\ h.issued = FailedPatch(h.err)
            /\ ~Accepted(h.id)
            /\ h.after # NoRow
                 => \/ h.after = [h.gen EXCEPT !.status = FAILED,
                                               !.error_message = h.err,
                                               !.external_id = Null]
                    \/ h.werr /\ h.after = h.gen /\ h.gen.status = PENDING
  /\ \A j \in DOMAIN rows :
       ~Accepted(j) => rows[j].status \in {PENDING, FAILED}

\* the create call failed, both updates were applied, the row is failed
C16_Witness ==
  \E h \in Generates :
    /\ Returned(h) /\ h.cerr /\ ~h.werr
    /\ h.resp.code = 500
    /\ h.id \in DOMAIN rows
    /\ rows[h.id].status = FAILED
    /\ rows[h.id].error_message = CreateErrorText
    /\ rows[h.id].external_id = Null

\* the requests that name a job: GET /status/:id, POST /cancel/:id, DELETE /:id
ById == {h \in Handlers : h.kind \in {"status", "cancel", "delete"}}

\* C18: GET /status, POST /cancel and DELETE on an id that has no row answer
\* 404, and a request answered 404 has made no provider call and no store
\* write: no row is created and the store is as it was.
C18_MissingRowIs404 ==
  \A h \in ById :
    /\ Returned(h) /\ h.calls = 0 /\ h.writes = 0 /\ h.id \notin DOMAIN rows
         => h.resp = NotFound
    /\ h.resp.code = 404
         => /\ Returned(h)
            /\ h.calls = 0 /\ h.writes = 0 /\ h.issued = NoPatch
            /\ h.seen = NoRow /\ h.after = NoRow

\* a poll of an id whose row was deleted is answered 404
C18_Witness ==
  \E h \in ById :
    /\ h.kind = "status" /\ Returned(h)
    /\ h.id \notin DOMAIN rows /\ h.id < nextId
    /\ h.resp.code = 404
    /\ h.calls = 0 /\ h.writes = 0

\* the five status changes of the job state machine
Edges ==
  {<<PENDING, PROCESSING>>, <<PENDING, FAILED>>, <<PROCESSING, COMPLETED>>,
   <<PROCESSING, FAILED>>, <<PROCESSING, CANCELLED>>}

\* C20: when the handlers working on a job do not overlap, every change of a
\* row's status is one of the five edges pending -> processing, pending ->
\* failed, processing -> completed, processing -> failed and processing ->
\* cancelled, and a row is created pending.
C20_OnlyFiveEdges ==
  [][\A j \in DOMAIN rows' :
       /\ j \notin DOMAIN rows => rows'[j].status = PENDING
       /\ j \in DOMAIN rows /\ rows'[j].status # rows[j].status
            => <<rows[j].status, rows'[j].status>> \in Edges]_vars

\* a cancel served alone has turned a processing row to cancelled
C20_Witness ==
  \E h \in Cancels :
    /\ Returned(h) /\ BagCardinality(hs) = 1
    /\ h.before.status = PROCESSING
    /\ h.id \in DOMAIN rows /\ rows[h.id].status = CANCELLED

\* the fields of a body that the contract of POST /generate does not allow
Violated(body) ==
  {f \in {"prompt"} :
     \/ ~Has(body, f)
     \/ body[f].core = 0
     \/ body[f].core > 1000}
  \cup {f \in {"duration"} : Has(body, f) /\ body[f] \notin {5, 10}}
  \cup {f \in {"aspect_ratio"} :
          Has(body, f)
          /\ body[f] \notin {"16:9", "9:16", "1:1", "4:3", "3:4", "21:9", "9:21"}}
  \cup {f \in {"resolution"} :
          Has(body, f) /\ body[f] \notin {"480p", "720p", "1080p"}}

Listed(resp) == {resp.details[k].path : k \in DOMAIN resp.details}

\* C17: a submission whose prompt is missing, empty once trimmed or longer
\* than 1000 characters, whose duration is not 5 or 10, or whose aspect ratio
\* or resolution is outside its set, is answered 400 at once with every such
\* field among the listed errors, and has written no user row and no job row
\* and made no provider call.
C17_InvalidInputIsRejected ==
  \A h \in Generates :
    Violated(h.body) # {}
      => /\ Returned(h)
         /\ h.resp.code = 400
         /\ Violated(h.body) \subseteq Listed(h.resp)
         /\ h.writes = 0 /\ h.calls = 0 /\ h.issued = NoPatch
         /\ h.id = 0 /\ h.after = NoRow

\* a body without prompt and with duration 7 is answered 400 with both
\* fields listed, and the store and the provider hold nothing
C17_Witness ==
  \E h \in Generates :
    /\ Returned(h) /\ h.resp.code = 400
    /\ Violated(h.body) = {"prompt", "duration"}
    /\ {"prompt", "duration"} \subseteq Listed(h.resp)
    /\ h.writes = 0 /\ h.calls = 0
    /\ rows = <<>> /\ preds = <<>>

\* what the contract promises for the three parameters of a body
Promised(body) ==
  [duration |-> IF Has(body, "duration") THEN body.duration ELSE 5,
   aspect_ratio |-> IF Has(body, "aspect_ratio") THEN body.aspect_ratio ELSE "16:9",
   resolution |-> IF Has(body, "resolution") THEN body.resolution ELSE "720p"]

\* C19: when a submission is answered 201, the columns of its row and the
\* input of its prediction hold the same duration, aspect_ratio and
\* resolution: the values of the body where it has them, 5, "16:9" and "720p"
\* where it has not; and the row is processing once the store has applied
\* the update.
C19_ParametersRoundTrip ==
  \A h \in Generates :
    Returned(h) /\ h.resp.code = 201
      => /\ h.id \in DOMAIN rows /\ h.id \in DOMAIN params
         /\ PredId(h.id) \in DOMAIN inputs
         /\ params[h.id] = Promised(h.body)
         /\ inputs[PredId(h.id)].duration = params[h.id].duration
         /\ inputs[PredId(h.id)].aspect_ratio = params[h.id].aspect_ratio
         /\ inputs[PredId(h.id)].resolution = params[h.id].resolution
         /\ ~h.werr => rows[h.id].status = PROCESSING

\* the submission with 10, "9:16" and "1080p" was accepted
C19_Witness ==
  \E h \in Generates :
    /\ Returned(h) /\ h.resp.code = 201 /\ ~h.werr
    /\ h.body.given = {"prompt", "duration", "aspect_ratio", "resolution"}
    /\ params[h.id] = [duration |-> 10, aspect_ratio |-> "9:16", resolution |-> "1080p"]
    /\ inputs[PredId(h.id)].duration = 10
    /\ inputs[PredId(h.id)].aspect_ratio = "9:16"
    /\ inputs[PredId(h.id)].resolution = "1080p"
    /\ rows[h.id].status = PROCESSING

Deletes == {h \in Handlers : h.kind = "delete"}

\* C21: a DELETE that found the row and whose delete the store carried out
\* has removed the row whatever its status was, has made no provider call
\* and answers 200; a GET /status, POST /cancel or DELETE that arrives for an
\* id whose row was deleted is answered 404.
C21_DeleteRemovesAnyRow ==
  /\ \A h \in Deletes :
       /\ h.calls = 0
       /\ Returned(h) /\ h.writes = 1 /\ ~h.werr
            => /\ h.resp.code = 200
               /\ h.id \notin DOMAIN rows
               /\ h.id \notin DOMAIN params
  /\ \A h \in ById :
       Returned(h) /\ h.calls = 0 /\ h.writes = 0
       /\ h.id < nextId /\ h.id \notin DOMAIN rows
         => h.resp.code = 404

\* a processing row was deleted: 200, the prediction is left with the provider
C21_Witness ==
  \E h \in Deletes :
    /\ Returned(h) /\ h.writes = 1 /\ ~h.werr
    /\ h.before.status = PROCESSING
    /\ h.resp.code = 200 /\ h.calls = 0
    /\ h.id \notin DOMAIN rows
    /\ preds[PredId(h.id)].status = "processing"

\* C22: with nobody cancelling or deleting, a client that keeps polling, a
\* provider that finishes the prediction and provider calls that do not fail
\* for ever, a processing row eventually becomes completed or failed.
C22_PollingSettles ==
  \A j \in JobIds :
    (j \in DOMAIN rows /\ rows[j].status = PROCESSING)
      ~> (j \in DOMAIN rows /\ rows[j].status \in {COMPLETED, FAILED})

\* C24: a processing row is changed or removed only by the write of a status
\* poll, of a cancellation or of a deletion of that job: the end of the
\* prediction at the provider changes no row, and the server has no step of
\* its own that reconciles.
C24_OnlyRequestsTouchProcessing ==
  [][\A j \in DOMAIN rows :
       rows[j].status = PROCESSING /\ (j \notin DOMAIN rows' \/ rows'[j] # rows[j])
         => \E h \in Handlers :
              /\ h.id = j
              /\ h.pc \in {"st_completed", "st_failed", "cn_write", "dl_delete"}
              /\ CopiesIn(h, hs') < CopiesIn(h, hs)]_vars

\* the prediction has ended, no request is being served, the row is processing
C24_Witness ==
  \E j \in DOMAIN rows :
    /\ rows[j].status = PROCESSING
    /\ preds[rows[j].external_id].status = "succeeded"
    /\ hs = EmptyBag

\* C25: within a submission the row is inserted as pending before the
\* provider's create call, which is made at most once, and the external id
\* is written only after that call returned; a handler whose provider call
\* raised makes no further provider call: a submission has made one call, a
\* cancellation one, and a poll has returned.
C25_SubmissionOrder ==
  /\ \A h \in Generates :
       /\ h.calls <= 1
       /\ h.pc = "gen_insert" => h.id = 0 /\ h.calls = 0
       /\ h.pc = "gen_create"
            => /\ h.id # 0 /\ h.id < nextId /\ h.gen.status = PENDING
               /\ h.calls = 0 /\ ~Accepted(h.id) /\ h.issued = NoPatch
       /\ h.pc = "gen_update"
            => h.calls = 1 /\ ~h.cerr /\ Accepted(h.id) /\ h.issued = NoPatch
       /\ h.issued.vals.external_id # Null => h.calls = 1 /\ Accepted(h.id)
       /\ h.cerr => h.calls = 1 /\ h.pc \in {"gen_fail", "gen_catch", "done"}
  /\ \A j \in JobIds : Accepted(j) => j < nextId
  /\ \A j \in DOMAIN rows : rows[j].external_id # Null => Accepted(j)
  /\ \A h \in Polls : h.calls <= 2 /\ (h.cerr => Returned(h))
  /\ \A h \in Cancels : h.calls <= 1

\* a submission whose create call raised has returned after that one call
C25_Witness ==
  \E h \in Generates :
    /\ Returned(h) /\ h.cerr /\ h.calls = 1
    /\ h.id \in DOMAIN rows /\ ~Accepted(h.id)

\* C26: an id whose row has been deleted never has a row again: the writes
\* that submissions, polls and cancellations in flight issue afterwards are
\* updates by id, which write nothing when the row is not there.
C26_DeletedStaysDeleted ==
  [][\A j \in JobIds :
       j < nextId /\ j \notin DOMAIN rows => j \notin DOMAIN rows']_vars

\* a cancellation wrote after the row had been deleted, and there is no row
C26_Witness ==
  \E h \in Cancels :
    /\ Returned(h) /\ h.writes = 1 /\ ~h.werr
    /\ h.seen.status = PROCESSING
    /\ h.before = NoRow /\ h.after = NoRow
    /\ h.id < nextId /\ h.id \notin DOMAIN rows

\* ---- C23
\* C23: GET /list with page=p and limit=L (both at least 1) answers with at
\* most L rows, the rows ranked (p-1)*L to p*L-1 by descending created_at, and
\* with pages = ceil(total/L); without parameters it answers as for page=1 and
\* limit=10
C23_ListReturnsPage ==
  (listing.pc = "done" /\ listing.code = 200 /\ listing.page.given = listing.limit.given)
    => LET p == IF listing.page.given THEN listing.page.n ELSE 1
           L == IF listing.limit.given THEN listing.limit.n ELSE 10
       IN  /\ Len(listing.generations) <= L
           /\ listing.generations = Range((p - 1) * L, p * L - 1)
           /\ listing.pagination.pages = Ceil(Cardinality(DOMAIN rows), L)

\* ---- C27
\* C27: the poller of a generation clears its interval once the job is seen in
\* a terminal status (completed, failed or cancelled), also after the user
\* cancelled: no answer with a terminal status leaves the interval set
C27_PollerStopsOnTerminal ==
  poller.seen \in Terminal => ~poller.interval

\* ---- C28
\* C28: the balance of a user (purchases and refunds minus usage) is never
\* negative, whatever deduct requests run and however they overlap
C28_BalanceNeverNegative == Balance(ledger) >= 0

\* ---- C29
\* the purchase rows that credit payment p
CreditedTimes(p) ==
  BagCardinality([t \in {x \in BagToSet(ledger) : x.type = "purchase" /\ x.payment = p}
                    |-> ledger[t]])

\* C29: a successful payment is credited at most once, whatever webhook
\* deliveries and /process-success calls are made for it
C29_PaymentCreditedOnce == \A p \in Payments : CreditedTimes(p) <= 1

\* ---- C30
\* C30: once pollExecutionResult has written the final status of an execution
\* (completed or failed), no write of its poll loop, the updates started by
\* onProgress included, sets the status back to processing
C30_FinalStatusStays ==
  [][(exec.final /\ exec.status \in {"completed", "failed"})
       => exec'.status # "processing"]_vars

====
